---- MODULE Spec2Model ----
(***************************************************************************)
(* State-machine model of the statefi-protocol Anchor program              *)
(* (programs/statefi-protocol/src/lib.rs).                                 *)
(*                                                                         *)
(* One action per instruction.  An action models one whole transaction:    *)
(* Anchor's account validation (the #[derive(Accounts)] struct), the       *)
(* handler body, and the runtime's rule that a transaction returning Err   *)
(* persists nothing.  Each instruction is an operator from the state and   *)
(* the inputs to the result (Ok or the error) and the state left.          *)
(*                                                                         *)
(* Validation order is the one Anchor generates: every non-init account is *)
(* deserialized first (a missing account fails AccountNotInitialized),     *)
(* then the `init` account is derived and created, then the constraints of *)
(* the remaining accounts run in field order (seeds, has_one, constraint), *)
(* then the handler, then the accounts are serialized back.                *)
(*                                                                         *)
(* token::transfer is the SPL Token program's Transfer: it checks the      *)
(* source balance, the two mints, and that the authority is the owner of   *)
(* the source account (only the owner of an account can approve a          *)
(* delegate, and changing the owner clears the delegate, so an account     *)
(* owned by a program address that never signs has no delegate).           *)
(*                                                                         *)
(* The `bump` fields and rent are address-derivation bookkeeping and are   *)
(* not modelled.                                                           *)
(***************************************************************************)
EXTENDS Integers, Sequences, FiniteSets, TLC

VARIABLES
    protocol_config,   \* the ProtocolConfig singleton at seeds ["protocol_config"], or None
    user_profiles,     \* key -> the UserProfile at seeds ["user_profile", key], or None
    vaults,            \* key -> the Vault at seeds ["vault", key], or None
    token_whitelists,  \* mint -> the TokenWhitelist at seeds ["token_whitelist", mint], or None
    fiat_deposits,     \* the FiatDeposit accounts, by seeds <<signer, reference_id>>
    fiat_withdrawals,  \* the FiatWithdrawal accounts, by seeds <<signer, mint, reference_id>>
    token_amount,      \* SPL token account -> its amount
    clock              \* Clock::get()?.unix_timestamp

vars == <<protocol_config, user_profiles, vaults, token_whitelists, fiat_deposits,
          fiat_withdrawals, token_amount, clock>>

(***************************************************************************)
(* Bounds of the model.                                                    *)
(***************************************************************************)
MaxTime == 1
MaxDeposits == 2
MaxWithdrawals == 1
\* tokens each treasury account holds at the start (funded from outside)
InitialTreasury == 79
\* largest amount of the fee-split specification (amount * 10000 fits TLC's integers)
MaxSplitAmount == 200000

(***************************************************************************)
(* Program constants.                                                      *)
(***************************************************************************)
MaxFeeBasisPoints == 10000
BasisPointsDenominator == 10000
MaxProfileNameLen == 50
MaxEmailLen == 100
MaxSymbolLen == 10
MaxTokenNameLen == 50
MaxReferenceIdLen == 100
\* size_of::<FiatDeposit>(): 114 bytes of fields, padded to the alignment of 8
FiatDepositSizeOf == 120
\* Borsh size of a FiatDeposit or FiatWithdrawal without the bytes of
\* reference_id: 32 + 32 + 8 + 4 + 1 + 8 + 8 + 1
RecordFixedBytes == 94
FiatWithdrawalSizeOf == 120
FiatWithdrawalExtraSpace == 100
\* a seed of a program-derived address is at most 32 bytes
MaxSeedLen == 32

None == [none |-> TRUE]

\* A string: its text, abbreviated, and its length in bytes.
Str(n, c) == [text |-> c, len |-> n]
StrLen(x) == x.len

(***************************************************************************)
(* Addresses.  Keys are keypairs, which sign transactions.  The other      *)
(* addresses are derived from seeds; only the program signs for them       *)
(* (new_with_signer), and it does so for ["protocol_config"] alone.        *)
(***************************************************************************)
Alice == <<"key", "alice">>
Bob == <<"key", "bob">>
Keys == {Alice, Bob}
ConfigPda == <<"protocol_config", "">>
VaultPda(k) == <<"vault", k[2]>>
Owners == Keys \cup {VaultPda(k) : k \in Keys} \cup {ConfigPda}

Mints == {"usdc", "ngn"}

\* SPL token accounts: one per owner and mint.
TokenAccounts == [owner : Owners, mint : Mints]
Treasury(m) == [owner |-> ConfigPda, mint |-> m]
VaultToken(k, m) == [owner |-> VaultPda(k), mint |-> m]
Wallet(k, m) == [owner |-> k, mint |-> m]

(***************************************************************************)
(* Inputs of the instructions.                                             *)
(***************************************************************************)
FeeChoices == {0, 250, 10001}
AmountChoices == {0, 40}
RefA == Str(2, "a")
Ref27 == Str(27, "a")
Ref33 == Str(33, "a")
ReferenceIds == {RefA, Ref27, Ref33}
\* the reference ids that can be a seed: the slots a record can occupy
SeedRefs == {r \in ReferenceIds : StrLen(r) <= MaxSeedLen}
ProfileNames == {Str(3, "n"), Str(51, "n")}
Emails == {Str(5, "e"), Str(101, "e")}
Symbols == {Str(4, "s"), Str(11, "s")}
TokenNames == {Str(6, "t"), Str(51, "t")}

DepositSlots == Keys \X SeedRefs
WithdrawalSlots == Keys \X Mints \X SeedRefs

(***************************************************************************)
(* The program state as one record, and the outcome of a transaction:      *)
(* its result and the state it leaves in memory.                           *)
(***************************************************************************)
State ==
    [protocol_config |-> protocol_config, user_profiles |-> user_profiles,
     vaults |-> vaults, token_whitelists |-> token_whitelists,
     fiat_deposits |-> fiat_deposits, fiat_withdrawals |-> fiat_withdrawals,
     token_amount |-> token_amount]

Fail(e, s) == [err |-> e, st |-> s]
Succeed(s) == [err |-> "Ok", st |-> s]

\* The record accounts of one type: the account at slot x exists iff x is
\* in the domain.
Has(f, x) == x \in DOMAIN f
Put(f, x, v) == [y \in DOMAIN f \cup {x} |-> IF y = x THEN v ELSE f[y]]
\* The accounts a caller can pass where a record is expected: the records,
\* and an account that is no such record.
Passable(f, slots) ==
    DOMAIN f \cup (IF slots \subseteq DOMAIN f THEN {}
                   ELSE {CHOOSE x \in slots : x \notin DOMAIN f})

(***************************************************************************)
(* token::transfer: the SPL Token program's Transfer.                      *)
(***************************************************************************)
\* A transfer that credits the destination and leaves the source as it was.
TokenTransferNoDebit(tok, from, to, authority, amount) ==
    IF tok[from] < amount THEN [err |-> "TokenInsufficientFunds", tok |-> tok]
    ELSE IF from.mint # to.mint THEN [err |-> "TokenMintMismatch", tok |-> tok]
    ELSE IF from.owner # authority THEN [err |-> "TokenOwnerMismatch", tok |-> tok]
    ELSE IF from = to THEN [err |-> "Ok", tok |-> tok]
    ELSE [err |-> "Ok", tok |-> [tok EXCEPT ![to] = @ + amount]]

TokenTransfer(tok, from, to, authority, amount) ==
    IF tok[from] < amount THEN [err |-> "TokenInsufficientFunds", tok |-> tok]
    ELSE IF from.mint # to.mint THEN [err |-> "TokenMintMismatch", tok |-> tok]
    ELSE IF from.owner # authority THEN [err |-> "TokenOwnerMismatch", tok |-> tok]
    ELSE IF from = to THEN [err |-> "Ok", tok |-> tok]
    ELSE [err |-> "Ok",
          tok |-> [tok EXCEPT ![from] = @ - amount, ![to] = @ + amount]]

(***************************************************************************)
(* initialize_protocol                                                     *)
(***************************************************************************)
\* InitializeProtocol with init_if_needed: an existing account passes.
InitializeProtocolAccountsIfNeeded(s) == "Ok"

InitializeProtocolAccounts(s) ==
    IF s.protocol_config # None THEN "AccountAlreadyInUse" ELSE "Ok"

initialize_protocol(s, admin, admin_fee_basis_points) ==
    IF InitializeProtocolAccounts(s) # "Ok" THEN Fail(InitializeProtocolAccounts(s), s)
    ELSE IF ~(admin_fee_basis_points <= MaxFeeBasisPoints) THEN Fail("InvalidFeeBasisPoints", s)
    ELSE Succeed([s EXCEPT !.protocol_config =
                     [admin |-> admin, admin_fee_basis_points |-> admin_fee_basis_points]])

(***************************************************************************)
(* create_user_profile                                                     *)
(***************************************************************************)
CreateUserProfileAccounts(s, user) ==
    IF s.user_profiles[user] # None THEN "AccountAlreadyInUse" ELSE "Ok"

create_user_profile(s, now, user, name, email) ==
    IF CreateUserProfileAccounts(s, user) # "Ok" THEN Fail(CreateUserProfileAccounts(s, user), s)
    ELSE IF ~(StrLen(name) <= MaxProfileNameLen) THEN Fail("StringTooLong", s)
    ELSE IF ~(StrLen(email) <= MaxEmailLen) THEN Fail("StringTooLong", s)
    ELSE Succeed([s EXCEPT !.user_profiles[user] =
                     [owner |-> user, name |-> name, email |-> email,
                      is_kyc_verified |-> FALSE, created_at |-> now]])

(***************************************************************************)
(* create_vault                                                            *)
(***************************************************************************)
\* `profile` names the UserProfile account passed: the one at seeds
\* ["user_profile", profile].  The vault is created at ["vault", its owner].
CreateVaultAccounts(s, user, profile) ==
    IF s.user_profiles[profile] = None THEN "AccountNotInitialized"
    ELSE IF s.vaults[s.user_profiles[profile].owner] # None THEN "AccountAlreadyInUse"
    ELSE IF profile # user THEN "ConstraintSeeds"
    ELSE IF user # s.user_profiles[profile].owner THEN "InvalidOwner"
    ELSE "Ok"

create_vault(s, now, user, profile) ==
    IF CreateVaultAccounts(s, user, profile) # "Ok"
    THEN Fail(CreateVaultAccounts(s, user, profile), s)
    ELSE Succeed([s EXCEPT !.vaults[s.user_profiles[profile].owner] =
                     [owner |-> s.user_profiles[profile].owner, created_at |-> now]])

(***************************************************************************)
(* whitelist_token                                                         *)
(***************************************************************************)
WhitelistTokenAccounts(s, admin, mint) ==
    IF s.protocol_config = None THEN "AccountNotInitialized"
    ELSE IF s.token_whitelists[mint] # None THEN "AccountAlreadyInUse"
    ELSE IF s.protocol_config.admin # admin THEN "Unauthorized"
    ELSE "Ok"

whitelist_token(s, now, admin, mint, symbol, name, is_stable) ==
    IF WhitelistTokenAccounts(s, admin, mint) # "Ok"
    THEN Fail(WhitelistTokenAccounts(s, admin, mint), s)
    ELSE IF ~(StrLen(symbol) <= MaxSymbolLen) THEN Fail("StringTooLong", s)
    ELSE IF ~(StrLen(name) <= MaxTokenNameLen) THEN Fail("StringTooLong", s)
    ELSE Succeed([s EXCEPT !.token_whitelists[mint] =
                     [mint |-> mint, symbol |-> symbol, name |-> name,
                      is_stable |-> is_stable, is_active |-> TRUE, created_at |-> now]])

(***************************************************************************)
(* initiate_fiat_deposit                                                   *)
(***************************************************************************)
\* `profile` and `whitelist` name the UserProfile and TokenWhitelist accounts
\* passed; the struct puts no constraint on either.  The two token accounts
\* of the struct are neither constrained nor used, and are left out.
InitiateFiatDepositAccounts(s, user, profile, whitelist, reference_id) ==
    IF s.user_profiles[profile] = None THEN "AccountNotInitialized"
    ELSE IF s.token_whitelists[whitelist] = None THEN "AccountNotInitialized"
    ELSE IF StrLen(reference_id) > MaxSeedLen THEN "MaxSeedLengthExceeded"
    ELSE IF Has(s.fiat_deposits, <<user, reference_id>>) THEN "AccountAlreadyInUse"
    ELSE "Ok"

\* Account::exit: the record is written into the 8 + size_of bytes allocated.
FiatDepositFits(reference_id) ==
    8 + RecordFixedBytes + StrLen(reference_id) <= 8 + FiatDepositSizeOf

initiate_fiat_deposit(s, now, user, profile, mint, whitelist, amount, reference_id) ==
    IF InitiateFiatDepositAccounts(s, user, profile, whitelist, reference_id) # "Ok"
    THEN Fail(InitiateFiatDepositAccounts(s, user, profile, whitelist, reference_id), s)
    ELSE IF ~(amount > 0) THEN Fail("InvalidAmount", s)
    ELSE IF ~(StrLen(reference_id) <= MaxReferenceIdLen) THEN Fail("StringTooLong", s)
    ELSE IF ~FiatDepositFits(reference_id) THEN Fail("AccountDidNotSerialize", s)
    ELSE Succeed([s EXCEPT !.fiat_deposits = Put(@, <<user, reference_id>>,
                     [user |-> s.user_profiles[profile].owner, mint |-> mint,
                      amount |-> amount, reference_id |-> reference_id,
                      status |-> "Pending", created_at |-> now, updated_at |-> now])])

(***************************************************************************)
(* complete_fiat_deposit                                                   *)
(***************************************************************************)
\* `deposit` is the slot of the FiatDeposit passed, `vault` the key whose
\* Vault is passed; vta, tta, ata are the vault, treasury and admin token
\* accounts passed.
CompleteFiatDepositLoaded(s, deposit, vault) ==
    IF s.protocol_config = None THEN "AccountNotInitialized"
    ELSE IF ~Has(s.fiat_deposits, deposit) THEN "AccountNotInitialized"
    ELSE IF s.vaults[vault] = None THEN "AccountNotInitialized"
    ELSE "Ok"

\* CompleteFiatDeposit without the seeds on `vault`: any Vault passes.
CompleteFiatDepositAccountsAnyVault(s, admin, deposit, vault, vta, tta, ata) ==
    IF CompleteFiatDepositLoaded(s, deposit, vault) # "Ok"
    THEN CompleteFiatDepositLoaded(s, deposit, vault)
    ELSE IF s.protocol_config.admin # admin THEN "Unauthorized"
    ELSE IF vta.owner # VaultPda(vault) THEN "InvalidTokenAccountOwner"
    ELSE IF vta.mint # s.fiat_deposits[deposit].mint THEN "InvalidMint"
    ELSE IF tta.mint # s.fiat_deposits[deposit].mint THEN "InvalidMint"
    ELSE IF ata.mint # s.fiat_deposits[deposit].mint THEN "InvalidMint"
    ELSE IF ata.owner # s.protocol_config.admin THEN "InvalidTokenAccountOwner"
    ELSE "Ok"

\* CompleteFiatDeposit without `has_one = admin`: any signer passes.
CompleteFiatDepositAccountsAnySigner(s, admin, deposit, vault, vta, tta, ata) ==
    IF CompleteFiatDepositLoaded(s, deposit, vault) # "Ok"
    THEN CompleteFiatDepositLoaded(s, deposit, vault)
    ELSE IF vault # s.fiat_deposits[deposit].user THEN "ConstraintSeeds"
    ELSE IF vta.owner # VaultPda(vault) THEN "InvalidTokenAccountOwner"
    ELSE IF vta.mint # s.fiat_deposits[deposit].mint THEN "InvalidMint"
    ELSE IF tta.mint # s.fiat_deposits[deposit].mint THEN "InvalidMint"
    ELSE IF ata.mint # s.fiat_deposits[deposit].mint THEN "InvalidMint"
    ELSE IF ata.owner # s.protocol_config.admin THEN "InvalidTokenAccountOwner"
    ELSE "Ok"

CompleteFiatDepositAccounts(s, admin, deposit, vault, vta, tta, ata) ==
    IF CompleteFiatDepositLoaded(s, deposit, vault) # "Ok"
    THEN CompleteFiatDepositLoaded(s, deposit, vault)
    ELSE IF s.protocol_config.admin # admin THEN "Unauthorized"
    ELSE IF vault # s.fiat_deposits[deposit].user THEN "ConstraintSeeds"
    ELSE IF vta.owner # VaultPda(vault) THEN "InvalidTokenAccountOwner"
    ELSE IF vta.mint # s.fiat_deposits[deposit].mint THEN "InvalidMint"
    ELSE IF tta.mint # s.fiat_deposits[deposit].mint THEN "InvalidMint"
    ELSE IF ata.mint # s.fiat_deposits[deposit].mint THEN "InvalidMint"
    ELSE IF ata.owner # s.protocol_config.admin THEN "InvalidTokenAccountOwner"
    ELSE "Ok"

\* The fee rounded up instead of down.
FeeAmountRoundedUp(amount, admin_fee_basis_points) ==
    IF admin_fee_basis_points > 0
    THEN (amount * admin_fee_basis_points + BasisPointsDenominator - 1)
             \div BasisPointsDenominator
    ELSE 0

FeeAmount(amount, admin_fee_basis_points) ==
    IF admin_fee_basis_points > 0
    THEN (amount * admin_fee_basis_points) \div BasisPointsDenominator
    ELSE 0

\* The payout that sets the wrong variant of DepositStatus.
CompleteFiatDepositPayRejects(s, now, deposit, vta, tta, ata) ==
    LET d == s.fiat_deposits[deposit]
        fee_amount == FeeAmount(d.amount, s.protocol_config.admin_fee_basis_points)
        user_amount == d.amount - fee_amount
        t1 == TokenTransfer(s.token_amount, tta, vta, ConfigPda, user_amount)
        s1 == [s EXCEPT !.token_amount = t1.tok]
        t2 == IF fee_amount > 0
              THEN TokenTransfer(t1.tok, tta, ata, ConfigPda, fee_amount)
              ELSE [err |-> "Ok", tok |-> t1.tok]
        s2 == [s EXCEPT !.token_amount = t2.tok]
    IN  IF fee_amount > d.amount THEN Fail("Panic", s)
        ELSE IF t1.err # "Ok" THEN Fail(t1.err, s)
        ELSE IF t2.err # "Ok" THEN Fail(t2.err, s1)
        ELSE Succeed([s2 EXCEPT !.fiat_deposits[deposit].status = "Rejected",
                                !.fiat_deposits[deposit].updated_at = now])

\* The payout that also overwrites the record's amount with the net amount.
CompleteFiatDepositPayNet(s, now, deposit, vta, tta, ata) ==
    LET d == s.fiat_deposits[deposit]
        fee_amount == FeeAmount(d.amount, s.protocol_config.admin_fee_basis_points)
        user_amount == d.amount - fee_amount
        t1 == TokenTransfer(s.token_amount, tta, vta, ConfigPda, user_amount)
        s1 == [s EXCEPT !.token_amount = t1.tok]
        t2 == IF fee_amount > 0
              THEN TokenTransfer(t1.tok, tta, ata, ConfigPda, fee_amount)
              ELSE [err |-> "Ok", tok |-> t1.tok]
        s2 == [s EXCEPT !.token_amount = t2.tok]
    IN  IF fee_amount > d.amount THEN Fail("Panic", s)
        ELSE IF t1.err # "Ok" THEN Fail(t1.err, s)
        ELSE IF t2.err # "Ok" THEN Fail(t2.err, s1)
        ELSE Succeed([s2 EXCEPT !.fiat_deposits[deposit].status = "Completed",
                                !.fiat_deposits[deposit].amount = user_amount,
                                !.fiat_deposits[deposit].updated_at = now])

\* The handler after the status and vault checks: the two transfers, then
\* the status.  checked_sub(..).unwrap() panics when the fee exceeds the amount.
CompleteFiatDepositPay(s, now, deposit, vta, tta, ata) ==
    LET d == s.fiat_deposits[deposit]
        fee_amount == FeeAmount(d.amount, s.protocol_config.admin_fee_basis_points)
        user_amount == d.amount - fee_amount
        t1 == TokenTransfer(s.token_amount, tta, vta, ConfigPda, user_amount)
        s1 == [s EXCEPT !.token_amount = t1.tok]
        t2 == IF fee_amount > 0
              THEN TokenTransfer(t1.tok, tta, ata, ConfigPda, fee_amount)
              ELSE [err |-> "Ok", tok |-> t1.tok]
        s2 == [s EXCEPT !.token_amount = t2.tok]
    IN  IF fee_amount > d.amount THEN Fail("Panic", s)
        ELSE IF t1.err # "Ok" THEN Fail(t1.err, s)
        ELSE IF t2.err # "Ok" THEN Fail(t2.err, s1)
        ELSE Succeed([s2 EXCEPT !.fiat_deposits[deposit].status = "Completed",
                                !.fiat_deposits[deposit].updated_at = now])

\* complete_fiat_deposit without the require! on the deposit's status.
complete_fiat_deposit_any_status(s, now, admin, deposit, vault, vta, tta, ata) ==
    IF CompleteFiatDepositAccounts(s, admin, deposit, vault, vta, tta, ata) # "Ok"
    THEN Fail(CompleteFiatDepositAccounts(s, admin, deposit, vault, vta, tta, ata), s)
    ELSE IF s.vaults[vault].owner # s.fiat_deposits[deposit].user
         THEN Fail("InvalidVaultOwner", s)
    ELSE CompleteFiatDepositPay(s, now, deposit, vta, tta, ata)

complete_fiat_deposit(s, now, admin, deposit, vault, vta, tta, ata) ==
    IF CompleteFiatDepositAccounts(s, admin, deposit, vault, vta, tta, ata) # "Ok"
    THEN Fail(CompleteFiatDepositAccounts(s, admin, deposit, vault, vta, tta, ata), s)
    ELSE IF s.fiat_deposits[deposit].status # "Pending" THEN Fail("InvalidDepositStatus", s)
    ELSE IF s.vaults[vault].owner # s.fiat_deposits[deposit].user
         THEN Fail("InvalidVaultOwner", s)
    ELSE CompleteFiatDepositPay(s, now, deposit, vta, tta, ata)

(***************************************************************************)
(* initiate_fiat_withdrawal                                                *)
(***************************************************************************)
\* `profile`, `vault`, `whitelist` name the UserProfile, Vault and
\* TokenWhitelist accounts passed; vta and tta the two token accounts.
\* InitiateFiatWithdrawal without the constraint on token_whitelist.is_active.
InitiateFiatWithdrawalLoadedAnyToken(s, user, profile, vault, whitelist, mint, reference_id) ==
    IF s.user_profiles[profile] = None THEN "AccountNotInitialized"
    ELSE IF s.vaults[vault] = None THEN "AccountNotInitialized"
    ELSE IF s.token_whitelists[whitelist] = None THEN "AccountNotInitialized"
    ELSE IF StrLen(reference_id) > MaxSeedLen THEN "MaxSeedLengthExceeded"
    ELSE IF Has(s.fiat_withdrawals, <<user, mint, reference_id>>) THEN "AccountAlreadyInUse"
    ELSE IF profile # user THEN "ConstraintSeeds"
    ELSE IF vault # s.user_profiles[profile].owner THEN "ConstraintSeeds"
    ELSE IF whitelist # mint THEN "ConstraintSeeds"
    ELSE "Ok"

InitiateFiatWithdrawalLoaded(s, user, profile, vault, whitelist, mint, reference_id) ==
    IF s.user_profiles[profile] = None THEN "AccountNotInitialized"
    ELSE IF s.vaults[vault] = None THEN "AccountNotInitialized"
    ELSE IF s.token_whitelists[whitelist] = None THEN "AccountNotInitialized"
    ELSE IF StrLen(reference_id) > MaxSeedLen THEN "MaxSeedLengthExceeded"
    ELSE IF Has(s.fiat_withdrawals, <<user, mint, reference_id>>) THEN "AccountAlreadyInUse"
    ELSE IF profile # user THEN "ConstraintSeeds"
    ELSE IF vault # s.user_profiles[profile].owner THEN "ConstraintSeeds"
    ELSE IF whitelist # mint THEN "ConstraintSeeds"
    ELSE IF ~s.token_whitelists[whitelist].is_active THEN "TokenNotActive"
    ELSE "Ok"

\* InitiateFiatWithdrawal without the constraint on the vault balance.
InitiateFiatWithdrawalAccountsNoBalance(s, user, profile, vault, whitelist, mint, vta, tta, amount, reference_id) ==
    IF InitiateFiatWithdrawalLoaded(s, user, profile, vault, whitelist, mint, reference_id) # "Ok"
    THEN InitiateFiatWithdrawalLoaded(s, user, profile, vault, whitelist, mint, reference_id)
    ELSE IF vta.owner # VaultPda(vault) THEN "InvalidTokenAccountOwner"
    ELSE IF vta.mint # mint THEN "InvalidMint"
    ELSE IF tta.mint # mint THEN "InvalidMint"
    ELSE "Ok"

InitiateFiatWithdrawalAccounts(s, user, profile, vault, whitelist, mint, vta, tta, amount, reference_id) ==
    IF InitiateFiatWithdrawalLoaded(s, user, profile, vault, whitelist, mint, reference_id) # "Ok"
    THEN InitiateFiatWithdrawalLoaded(s, user, profile, vault, whitelist, mint, reference_id)
    ELSE IF vta.owner # VaultPda(vault) THEN "InvalidTokenAccountOwner"
    ELSE IF vta.mint # mint THEN "InvalidMint"
    ELSE IF ~(s.token_amount[vta] >= amount) THEN "InsufficientFunds"
    ELSE IF tta.mint # mint THEN "InvalidMint"
    ELSE "Ok"

initiate_fiat_withdrawal(s, now, user, profile, vault, whitelist, mint, vta, tta, amount, reference_id) ==
    LET e == InitiateFiatWithdrawalAccounts(s, user, profile, vault, whitelist, mint,
                                            vta, tta, amount, reference_id)
        t == TokenTransfer(s.token_amount, vta, tta, user, amount)
    IN  IF e # "Ok" THEN Fail(e, s)
        ELSE IF ~(amount > 0) THEN Fail("InvalidAmount", s)
        ELSE IF ~(StrLen(reference_id) <= MaxReferenceIdLen) THEN Fail("StringTooLong", s)
        ELSE IF t.err # "Ok" THEN Fail(t.err, s)
        ELSE IF ~(8 + RecordFixedBytes + StrLen(reference_id)
                    <= 8 + FiatWithdrawalSizeOf + FiatWithdrawalExtraSpace)
             THEN Fail("AccountDidNotSerialize", [s EXCEPT !.token_amount = t.tok])
        ELSE Succeed([s EXCEPT
                 !.token_amount = t.tok,
                 !.fiat_withdrawals = Put(@, <<user, mint, reference_id>>,
                     [user |-> s.user_profiles[profile].owner, mint |-> mint,
                      amount |-> amount, reference_id |-> reference_id,
                      status |-> "Pending", created_at |-> now, updated_at |-> now])])

(***************************************************************************)
(* complete_fiat_withdrawal                                                *)
(***************************************************************************)
CompleteFiatWithdrawalAccounts(s, admin, withdrawal) ==
    IF s.protocol_config = None THEN "AccountNotInitialized"
    ELSE IF ~Has(s.fiat_withdrawals, withdrawal) THEN "AccountNotInitialized"
    ELSE IF s.protocol_config.admin # admin THEN "Unauthorized"
    ELSE "Ok"

complete_fiat_withdrawal(s, now, admin, withdrawal) ==
    IF CompleteFiatWithdrawalAccounts(s, admin, withdrawal) # "Ok"
    THEN Fail(CompleteFiatWithdrawalAccounts(s, admin, withdrawal), s)
    ELSE IF s.fiat_withdrawals[withdrawal].status # "Pending"
         THEN Fail("InvalidWithdrawalStatus", s)
    ELSE Succeed([s EXCEPT !.fiat_withdrawals[withdrawal].status = "Completed",
                           !.fiat_withdrawals[withdrawal].updated_at = now])

(***************************************************************************)
(* cancel_fiat_withdrawal                                                  *)
(***************************************************************************)
CancelFiatWithdrawalLoaded(s, withdrawal, vault) ==
    IF s.protocol_config = None THEN "AccountNotInitialized"
    ELSE IF ~Has(s.fiat_withdrawals, withdrawal) THEN "AccountNotInitialized"
    ELSE IF s.vaults[vault] = None THEN "AccountNotInitialized"
    ELSE "Ok"

CancelFiatWithdrawalAccounts(s, admin, withdrawal, vault, vta, tta) ==
    IF CancelFiatWithdrawalLoaded(s, withdrawal, vault) # "Ok"
    THEN CancelFiatWithdrawalLoaded(s, withdrawal, vault)
    ELSE IF s.protocol_config.admin # admin THEN "Unauthorized"
    ELSE IF vault # s.fiat_withdrawals[withdrawal].user THEN "ConstraintSeeds"
    ELSE IF vta.owner # VaultPda(vault) THEN "InvalidTokenAccountOwner"
    ELSE IF vta.mint # s.fiat_withdrawals[withdrawal].mint THEN "InvalidMint"
    ELSE IF tta.mint # s.fiat_withdrawals[withdrawal].mint THEN "InvalidMint"
    ELSE "Ok"

cancel_fiat_withdrawal(s, now, admin, withdrawal, vault, vta, tta) ==
    LET e == CancelFiatWithdrawalAccounts(s, admin, withdrawal, vault, vta, tta)
        w == s.fiat_withdrawals[withdrawal]
        t == TokenTransfer(s.token_amount, tta, vta, ConfigPda, w.amount)
    IN  IF e # "Ok" THEN Fail(e, s)
        ELSE IF w.status # "Pending" THEN Fail("InvalidWithdrawalStatus", s)
        ELSE IF t.err # "Ok" THEN Fail(t.err, s)
        ELSE Succeed([s EXCEPT !.token_amount = t.tok,
                               !.fiat_withdrawals[withdrawal].status = "Cancelled",
                               !.fiat_withdrawals[withdrawal].updated_at = now])

(***************************************************************************)
(* The runtime: a transaction that returns Err persists nothing.           *)
(***************************************************************************)
\* A runtime that keeps what a failed transaction wrote.
PersistedPartial(s, r) == r.st

Persisted(s, r) == IF r.err = "Ok" THEN r.st ELSE s

Commit(r) ==
    \E p \in {Persisted(State, r)} :
        /\ protocol_config' = p.protocol_config
        /\ user_profiles' = p.user_profiles
        /\ vaults' = p.vaults
        /\ token_whitelists' = p.token_whitelists
        /\ fiat_deposits' = p.fiat_deposits
        /\ fiat_withdrawals' = p.fiat_withdrawals
        /\ token_amount' = p.token_amount
        /\ UNCHANGED clock

\* The inputs that are read only when every earlier check has passed are
\* enumerated only then: a call rejected earlier has the same outcome
\* whatever they are.
Pick(reached, S) == IF reached THEN S ELSE {CHOOSE x \in S : TRUE}

(***************************************************************************)
(* Actions: one transaction each, of any signer, with any inputs.          *)
(***************************************************************************)
InitializeProtocol ==
    \E admin \in Keys, fee \in FeeChoices :
        Commit(initialize_protocol(State, admin, fee))

CreateUserProfile ==
    \E user \in Keys, name \in ProfileNames, email \in Emails :
        Commit(create_user_profile(State, clock, user, name, email))

CreateVault ==
    \E user \in Keys, profile \in Keys :
        Commit(create_vault(State, clock, user, profile))

WhitelistToken ==
    \E admin \in Keys, mint \in Mints, symbol \in Symbols, name \in TokenNames,
       is_stable \in {TRUE} :
        Commit(whitelist_token(State, clock, admin, mint, symbol, name, is_stable))

InitiateFiatDeposit ==
    /\ Cardinality(DOMAIN fiat_deposits) < MaxDeposits
    /\ \E user \in Keys, profile \in Keys, whitelist \in Mints, reference_id \in ReferenceIds :
         \E mint \in Pick(InitiateFiatDepositAccounts(State, user, profile, whitelist,
                                                      reference_id) = "Ok", Mints),
            amount \in Pick(InitiateFiatDepositAccounts(State, user, profile, whitelist,
                                                        reference_id) = "Ok", AmountChoices) :
            Commit(initiate_fiat_deposit(State, clock, user, profile, mint, whitelist,
                                         amount, reference_id))

\* The token accounts are varied one at a time, and only for a call that got as
\* far as the constraint each one is subject to.
CompleteFiatDeposit ==
    \E admin \in Keys, deposit \in Passable(fiat_deposits, DepositSlots), vault \in Keys :
      \E vta \in Pick(/\ CompleteFiatDepositAccounts(State, admin, deposit, vault,
                             VaultToken(vault, "usdc"), Treasury("usdc"),
                             Wallet(admin, "usdc")) \in {"Ok", "InvalidMint"}
                       /\ fiat_deposits[deposit].status = "Pending", TokenAccounts) :
        \E tta \in Pick(/\ CompleteFiatDepositAccounts(State, admin, deposit, vault,
                               vta, Treasury(vta.mint), Wallet(admin, vta.mint)) = "Ok"
                         /\ fiat_deposits[deposit].status = "Pending", TokenAccounts) :
          \E ata \in Pick(/\ CompleteFiatDepositAccounts(State, admin, deposit, vault,
                                 vta, tta, Wallet(admin, vta.mint)) = "Ok"
                           /\ fiat_deposits[deposit].status = "Pending", TokenAccounts) :
            Commit(complete_fiat_deposit(State, clock, admin, deposit, vault, vta, tta, ata))

\* The profile, vault and whitelist passed are the accounts at the seeds the
\* struct names (any other account fails ConstraintSeeds).
InitiateFiatWithdrawal ==
    /\ Cardinality(DOMAIN fiat_withdrawals) < MaxWithdrawals
    /\ \E user \in Keys, mint \in Mints :
         \E reference_id \in Pick(InitiateFiatWithdrawalLoaded(State, user, user, user,
                                      mint, mint, RefA) = "Ok", ReferenceIds) :
           \E vta \in Pick(InitiateFiatWithdrawalLoaded(State, user, user, user, mint,
                                mint, reference_id) = "Ok", TokenAccounts) :
             \E amount \in Pick(InitiateFiatWithdrawalAccounts(State, user, user, user,
                                    mint, mint, vta, Treasury(mint), 0, reference_id)
                                    = "Ok", AmountChoices) :
               \E tta \in Pick(InitiateFiatWithdrawalAccounts(State, user, user, user,
                                    mint, mint, vta, Treasury(mint), amount,
                                    reference_id) = "Ok", TokenAccounts) :
                 Commit(initiate_fiat_withdrawal(State, clock, user, user, user, mint,
                                                 mint, vta, tta, amount, reference_id))

CompleteFiatWithdrawal ==
    \E admin \in Keys, withdrawal \in Passable(fiat_withdrawals, WithdrawalSlots) :
        Commit(complete_fiat_withdrawal(State, clock, admin, withdrawal))

CancelFiatWithdrawal ==
    \E admin \in Keys, withdrawal \in Passable(fiat_withdrawals, WithdrawalSlots),
       vault \in Keys :
      \E vta \in Pick(CancelFiatWithdrawalAccounts(State, admin, withdrawal, vault,
                          VaultToken(vault, "usdc"), Treasury("usdc"))
                      \in {"Ok", "InvalidMint"}, TokenAccounts) :
        \E tta \in Pick(CancelFiatWithdrawalAccounts(State, admin, withdrawal, vault, vta,
                            Treasury(vta.mint)) = "Ok", TokenAccounts) :
          Commit(cancel_fiat_withdrawal(State, clock, admin, withdrawal, vault, vta, tta))

\* The cluster's clock advances between transactions.
Tick ==
    /\ clock < MaxTime
    /\ clock' = clock + 1
    /\ UNCHANGED <<protocol_config, user_profiles, vaults, token_whitelists,
                   fiat_deposits, fiat_withdrawals, token_amount>>

Next ==
    \/ InitializeProtocol
    \/ CreateUserProfile
    \/ CreateVault
    \/ WhitelistToken
    \/ InitiateFiatDeposit
    \/ CompleteFiatDeposit
    \/ InitiateFiatWithdrawal
    \/ CompleteFiatWithdrawal
    \/ CancelFiatWithdrawal
    \/ Tick

(***************************************************************************)
(* The ledger before any instruction: nothing but the token accounts.      *)
(***************************************************************************)
Genesis ==
    /\ protocol_config = None
    /\ user_profiles = [k \in Keys |-> None]
    /\ vaults = [k \in Keys |-> None]
    /\ token_whitelists = [m \in Mints |-> None]
    /\ fiat_deposits = [x \in {} |-> None]
    /\ fiat_withdrawals = [x \in {} |-> None]
    /\ token_amount = [t \in TokenAccounts |->
                          IF t.owner = ConfigPda THEN InitialTreasury ELSE 0]
    /\ clock = 0

(***************************************************************************)
(* Init: a bootstrapped ledger.  Alice has initialized the protocol (with  *)
(* either fee rate) and whitelisted usdc, and has a profile and a vault;   *)
(* Bob has nothing yet, ngn is not whitelisted.  Each such state is        *)
(* reached from Genesis by initialize_protocol, create_user_profile,       *)
(* create_vault and whitelist_token.                                       *)
(***************************************************************************)
Init ==
    /\ \E fee \in {f \in FeeChoices : f <= MaxFeeBasisPoints} :
          protocol_config = [admin |-> Alice, admin_fee_basis_points |-> fee]
    /\ user_profiles = [k \in Keys |->
          IF k = Alice
          THEN [owner |-> Alice, name |-> Str(3, "n"), email |-> Str(5, "e"),
                is_kyc_verified |-> FALSE, created_at |-> 0]
          ELSE None]
    /\ vaults = [k \in Keys |-> IF k = Alice THEN [owner |-> Alice, created_at |-> 0] ELSE None]
    /\ token_whitelists = [m \in Mints |->
          IF m = "usdc"
          THEN [mint |-> "usdc", symbol |-> Str(4, "s"), name |-> Str(6, "t"),
                is_stable |-> TRUE, is_active |-> TRUE, created_at |-> 0]
          ELSE None]
    /\ fiat_deposits = [x \in {} |-> None]
    /\ fiat_withdrawals = [x \in {} |-> None]
    /\ token_amount = [t \in TokenAccounts |->
                          IF t.owner = ConfigPda THEN InitialTreasury ELSE 0]
    /\ clock = 0

Spec == Init /\ [][Next]_vars

(***************************************************************************)
(* The fee split over a range of rates and amounts: a ledger on which      *)
(* Alice, the admin, has set fee rate f and has one Pending usdc deposit   *)
(* of amount a, the treasury holding MaxSplitAmount; the admin completes   *)
(* it.  TLC's integers are 32 bits wide, so a * f stays below 2^31.        *)
(***************************************************************************)
FeeSamples == {0, 1, 250, 3333, 9999, MaxFeeBasisPoints}
AmountSamples == {1, 2, 39, 40, 9999, 10000, 33333, MaxSplitAmount}

InitFee ==
    /\ \E f \in FeeSamples :
          protocol_config = [admin |-> Alice, admin_fee_basis_points |-> f]
    /\ user_profiles = [k \in Keys |->
          IF k = Alice
          THEN [owner |-> Alice, name |-> Str(3, "n"), email |-> Str(5, "e"),
                is_kyc_verified |-> FALSE, created_at |-> 0]
          ELSE None]
    /\ vaults = [k \in Keys |-> IF k = Alice THEN [owner |-> Alice, created_at |-> 0] ELSE None]
    /\ token_whitelists = [m \in Mints |->
          IF m = "usdc"
          THEN [mint |-> "usdc", symbol |-> Str(4, "s"), name |-> Str(6, "t"),
                is_stable |-> TRUE, is_active |-> TRUE, created_at |-> 0]
          ELSE None]
    /\ \E a \in AmountSamples :
          fiat_deposits = Put([x \in {} |-> None], <<Alice, RefA>>,
              [user |-> Alice, mint |-> "usdc", amount |-> a, reference_id |-> RefA,
               status |-> "Pending", created_at |-> 0, updated_at |-> 0])
    /\ fiat_withdrawals = [x \in {} |-> None]
    /\ token_amount = [t \in TokenAccounts |->
                          IF t = Treasury("usdc") THEN MaxSplitAmount ELSE 0]
    /\ clock = 0

NextFee ==
    \/ CompleteFiatDeposit
    \/ Tick

SpecFee == InitFee /\ [][NextFee]_vars

(***************************************************************************)
(* The ledger under a fair admin.  The admin is an off-chain operator: for *)
(* each record, a completion (or cancellation) of it that stays possible   *)
(* is eventually submitted.  No other signer and no passing of time is     *)
(* under any obligation.                                                   *)
(***************************************************************************)
AdminCompletesDeposit(deposit) ==
    /\ deposit \in DOMAIN fiat_deposits
    /\ fiat_deposits[deposit].status = "Pending"
    /\ CompleteFiatDeposit
    /\ fiat_deposits'[deposit].status = "Completed"

AdminCompletesWithdrawal(withdrawal) ==
    /\ withdrawal \in DOMAIN fiat_withdrawals
    /\ fiat_withdrawals[withdrawal].status = "Pending"
    /\ CompleteFiatWithdrawal
    /\ fiat_withdrawals'[withdrawal].status = "Completed"

AdminCancelsWithdrawal(withdrawal) ==
    /\ withdrawal \in DOMAIN fiat_withdrawals
    /\ fiat_withdrawals[withdrawal].status = "Pending"
    /\ CancelFiatWithdrawal
    /\ fiat_withdrawals'[withdrawal].status = "Cancelled"

FairAdmin ==
    /\ \A deposit \in DepositSlots : WF_vars(AdminCompletesDeposit(deposit))
    /\ \A withdrawal \in WithdrawalSlots :
         /\ WF_vars(AdminCompletesWithdrawal(withdrawal))
         /\ WF_vars(AdminCancelsWithdrawal(withdrawal))

SpecFairAdmin == Init /\ [][Next]_vars /\ FairAdmin

(***************************************************************************)
(* Bootstrap: from the empty ledger, the instructions that set the         *)
(* protocol up (the configuration, profiles, vaults, the whitelist).       *)
(***************************************************************************)
NextBootstrap ==
    \/ InitializeProtocol
    \/ CreateUserProfile
    \/ CreateVault
    \/ WhitelistToken
    \/ Tick

SpecBootstrap == Genesis /\ [][NextBootstrap]_vars

(***************************************************************************)
(* Properties.  A handler's outcome is read off the handler applied to     *)
(* the reached ledger: r.err is the code the call returns, and             *)
(* Persisted(State, r) the ledger it leaves.  Where a check stops a call,  *)
(* the accounts read only by later checks are held at one value.           *)
(***************************************************************************)
RECURSIVE Sum(_, _)
Sum(f, S) == IF S = {} THEN 0
             ELSE LET x == CHOOSE y \in S : TRUE IN f[x] + Sum(f, S \ {x})

\* floor(amount * rate / 10000) of a deposit, written out
FloorFee(deposit) ==
    (fiat_deposits[deposit].amount * protocol_config.admin_fee_basis_points) \div 10000

CompletedDeposits == {d \in DOMAIN fiat_deposits : fiat_deposits[d].status = "Completed"}

\* No FiatWithdrawal record is reachable (initiate_fiat_withdrawal never
\* succeeds), so what the withdrawal handlers do with a record is read off
\* the ledger extended with one.
WithdrawalRecords(statuses) ==
    [user : {Alice}, mint : {"usdc"}, amount : {40}, reference_id : {RefA},
     status : statuses, created_at : {0}, updated_at : {0}]
WithWithdrawal(s, w) ==
    [s EXCEPT !.fiat_withdrawals = Put(@, <<w.user, w.mint, w.reference_id>>, w)]

----------------------------------------------------------------------------
\* complete_fiat_deposit on a deposit that is not Pending fails, with
\* InvalidDepositStatus when the accounts passed are valid, and persists nothing.
SettledDepositRejected ==
    \A deposit \in DOMAIN fiat_deposits :
      fiat_deposits[deposit].status # "Pending" =>
        \A admin \in Keys, vault \in Keys, vta \in TokenAccounts :
          \A tta \in Pick(CompleteFiatDepositAccounts(State, admin, deposit, vault, vta,
                            Treasury(vta.mint), Wallet(admin, vta.mint)) = "Ok",
                          TokenAccounts) :
            \A ata \in Pick(CompleteFiatDepositAccounts(State, admin, deposit, vault, vta,
                              tta, Wallet(admin, vta.mint)) = "Ok", TokenAccounts) :
              LET r == complete_fiat_deposit(State, clock, admin, deposit, vault,
                                             vta, tta, ata)
              IN  /\ r.err # "Ok"
                  /\ Persisted(State, r) = State
                  /\ CompleteFiatDepositAccounts(State, admin, deposit, vault,
                                                 vta, tta, ata) = "Ok"
                       => r.err = "InvalidDepositStatus"

\* complete_fiat_withdrawal and cancel_fiat_withdrawal on a withdrawal that is
\* not Pending fail, with InvalidWithdrawalStatus when the accounts passed are
\* valid, and persist nothing.
SettledWithdrawalRejected ==
    \A w \in WithdrawalRecords({"Completed", "Cancelled"}) :
      LET s == WithWithdrawal(State, w)
          slot == <<w.user, w.mint, w.reference_id>>
      IN  \A admin \in Keys :
            /\ LET r == complete_fiat_withdrawal(s, clock, admin, slot)
               IN  /\ r.err # "Ok"
                   /\ Persisted(s, r) = s
                   /\ CompleteFiatWithdrawalAccounts(s, admin, slot) = "Ok"
                        => r.err = "InvalidWithdrawalStatus"
            /\ \A vault \in Keys, vta \in TokenAccounts :
                 \A tta \in Pick(CancelFiatWithdrawalAccounts(s, admin, slot, vault, vta,
                                   Treasury(vta.mint)) = "Ok", TokenAccounts) :
                   LET r == cancel_fiat_withdrawal(s, clock, admin, slot, vault, vta, tta)
                   IN  /\ r.err # "Ok"
                       /\ Persisted(s, r) = s
                       /\ CancelFiatWithdrawalAccounts(s, admin, slot, vault, vta, tta)
                            = "Ok" => r.err = "InvalidWithdrawalStatus"

\* A record that has left Pending is changed by no step.
SettledRecordsStay ==
    /\ \A d \in DOMAIN fiat_deposits :
         fiat_deposits[d].status # "Pending" =>
           d \in DOMAIN fiat_deposits' /\ fiat_deposits'[d] = fiat_deposits[d]
    /\ \A w \in DOMAIN fiat_withdrawals :
         fiat_withdrawals[w].status # "Pending" =>
           w \in DOMAIN fiat_withdrawals' /\ fiat_withdrawals'[w] = fiat_withdrawals[w]

\* C1: a deposit or withdrawal record leaves Pending at most once: a
\* completion of a non-Pending deposit fails with InvalidDepositStatus, a
\* completion or cancellation of a non-Pending withdrawal fails with
\* InvalidWithdrawalStatus, the failed call changes no balance and no record,
\* and no step changes a record that has left Pending.
LeavesPendingAtMostOnce ==
    /\ [](SettledDepositRejected /\ SettledWithdrawalRejected)
    /\ [][SettledRecordsStay]_vars

\* A Completed deposit is reached, and the admin's second completion of it,
\* with the accounts of the first, returns InvalidDepositStatus.
CompletedDepositRetried ==
    \E deposit \in CompletedDeposits :
      LET d == fiat_deposits[deposit]
      IN  complete_fiat_deposit(State, clock, protocol_config.admin, deposit, d.user,
              VaultToken(d.user, d.mint), Treasury(d.mint),
              Wallet(protocol_config.admin, d.mint)).err = "InvalidDepositStatus"

----------------------------------------------------------------------------
\* C2: for every fee rate f in 0..10000 and every amount a, a successful
\* complete_fiat_deposit moves fee = floor(a * f / 10000) from the treasury to
\* the admin's fee account and a - fee from the treasury to the vault token
\* account, with fee <= a and fee + (a - fee) = a, so that the treasury
\* decreases by exactly a.  (Checked under SpecFee, where every deposit is
\* Alice's usdc deposit and the treasury starts at MaxSplitAmount.)
FeeSplitExact ==
    \A deposit \in DOMAIN fiat_deposits :
      LET d == fiat_deposits[deposit]
          fee == FloorFee(deposit)
          r == complete_fiat_deposit(State, clock, protocol_config.admin, deposit,
                   d.user, VaultToken(d.user, d.mint), Treasury(d.mint),
                   Wallet(protocol_config.admin, d.mint))
      IN  /\ protocol_config.admin_fee_basis_points \in 0..MaxFeeBasisPoints
          /\ fee >= 0 /\ fee <= d.amount
          /\ d.status = "Pending" =>
               /\ r.err = "Ok"
               /\ r.st.fiat_deposits[deposit].status = "Completed"
               /\ r.st.token_amount[Treasury(d.mint)]
                    = token_amount[Treasury(d.mint)] - d.amount
               /\ r.st.token_amount[VaultToken(d.user, d.mint)]
                    = token_amount[VaultToken(d.user, d.mint)] + (d.amount - fee)
               /\ r.st.token_amount[Wallet(protocol_config.admin, d.mint)]
                    = token_amount[Wallet(protocol_config.admin, d.mint)] + fee
          /\ d.status = "Completed" =>
               /\ token_amount[Treasury(d.mint)] = MaxSplitAmount - d.amount
               /\ token_amount[VaultToken(d.user, d.mint)] = d.amount - fee
               /\ token_amount[Wallet(protocol_config.admin, d.mint)] = fee
               /\ token_amount[VaultToken(d.user, d.mint)]
                    + token_amount[Wallet(protocol_config.admin, d.mint)] = d.amount

\* The spec's scenario has happened: at 250 basis points a deposit of 10000
\* is Completed, the vault holding 9750 and the admin's fee account 250.
ScenarioSplitCompleted ==
    \E deposit \in CompletedDeposits :
      /\ protocol_config.admin_fee_basis_points = 250
      /\ fiat_deposits[deposit].amount = 10000
      /\ token_amount[VaultToken(Alice, "usdc")] = 9750
      /\ token_amount[Wallet(Alice, "usdc")] = 250

----------------------------------------------------------------------------
\* A completion whose treasury account holds less than the deposit's amount
\* fails and persists nothing.
TreasuryShortfallRejected ==
    \A deposit \in DOMAIN fiat_deposits :
      fiat_deposits[deposit].status = "Pending" =>
        \A admin \in Keys, vault \in Keys, vta \in TokenAccounts :
          \A tta \in Pick(CompleteFiatDepositAccounts(State, admin, deposit, vault, vta,
                            Treasury(vta.mint), Wallet(admin, vta.mint)) = "Ok",
                          TokenAccounts) :
            \A ata \in Pick(CompleteFiatDepositAccounts(State, admin, deposit, vault, vta,
                              tta, Wallet(admin, vta.mint)) = "Ok", TokenAccounts) :
              token_amount[tta] < fiat_deposits[deposit].amount =>
                LET r == complete_fiat_deposit(State, clock, admin, deposit, vault,
                                               vta, tta, ata)
                IN  r.err # "Ok" /\ Persisted(State, r) = State

\* Every balance is accounted for by the Completed deposits: the treasury has
\* paid out their amounts, each vault token account holds their user amounts
\* and the admin's fee account their fees; a Pending deposit has moved nothing.
BalancesMatchCompleted ==
    LET amount == [d \in CompletedDeposits |-> fiat_deposits[d].amount]
        fee == [d \in CompletedDeposits |-> FloorFee(d)]
        user_amount == [d \in CompletedDeposits |-> amount[d] - fee[d]]
        Of(m) == {d \in CompletedDeposits : fiat_deposits[d].mint = m}
    IN  \A m \in Mints :
          /\ token_amount[Treasury(m)] = InitialTreasury - Sum(amount, Of(m))
          /\ token_amount[Wallet(protocol_config.admin, m)] = Sum(fee, Of(m))
          /\ \A k \in Keys :
               token_amount[VaultToken(k, m)]
                 = Sum(user_amount, {d \in Of(m) : fiat_deposits[d].user = k})

\* C3: if the treasury balance is less than the deposit's amount,
\* complete_fiat_deposit fails as a whole: the deposit stays Pending and the
\* treasury, vault and fee balances are unchanged; no state is reachable in
\* which the user transfer was applied without the fee transfer and the
\* status change.
NoPartialCompletion == TreasuryShortfallRejected /\ BalancesMatchCompleted

\* A Pending deposit whose user amount the treasury could pay but whose fee
\* it could not: the admin's completion fails in the second transfer.
FeeTransferUnpayable ==
    \E deposit \in DOMAIN fiat_deposits :
      LET d == fiat_deposits[deposit]
      IN  /\ d.status = "Pending"
          /\ token_amount[Treasury(d.mint)] < d.amount
          /\ token_amount[Treasury(d.mint)] >= d.amount - FloorFee(deposit)
          /\ complete_fiat_deposit(State, clock, protocol_config.admin, deposit, d.user,
                 VaultToken(d.user, d.mint), Treasury(d.mint),
                 Wallet(protocol_config.admin, d.mint)).err = "TokenInsufficientFunds"

----------------------------------------------------------------------------
\* C5: whitelist_token, complete_fiat_deposit, complete_fiat_withdrawal and
\* cancel_fiat_withdrawal called by a signer other than ProtocolConfig.admin
\* fail and change no record and no balance, also when the signer is the
\* user the record names; the error is Unauthorized whenever the accounts
\* the call names exist (and, for whitelist_token, the entry does not yet).
NonAdminRejected ==
    \A caller \in Keys \ {protocol_config.admin} :
      /\ \A mint \in Mints, symbol \in Symbols, name \in TokenNames :
           LET r == whitelist_token(State, clock, caller, mint, symbol, name, TRUE)
           IN  /\ r.err # "Ok"
               /\ Persisted(State, r) = State
               /\ token_whitelists[mint] = None => r.err = "Unauthorized"
      /\ \A deposit \in Passable(fiat_deposits, DepositSlots), vault \in Keys,
            vta \in TokenAccounts, owner \in Keys :
           LET r == complete_fiat_deposit(State, clock, caller, deposit, vault, vta,
                        Treasury(vta.mint), Wallet(owner, vta.mint))
           IN  /\ r.err # "Ok"
               /\ Persisted(State, r) = State
               /\ CompleteFiatDepositLoaded(State, deposit, vault) = "Ok"
                    => r.err = "Unauthorized"
      /\ \A withdrawal \in WithdrawalSlots, vault \in Keys, vta \in TokenAccounts :
           /\ complete_fiat_withdrawal(State, clock, caller, withdrawal).err # "Ok"
           /\ cancel_fiat_withdrawal(State, clock, caller, withdrawal, vault, vta,
                                     Treasury(vta.mint)).err # "Ok"
      /\ \A w \in WithdrawalRecords({"Pending", "Completed", "Cancelled"}) :
           LET s == WithWithdrawal(State, w)
               slot == <<w.user, w.mint, w.reference_id>>
           IN  /\ LET r == complete_fiat_withdrawal(s, clock, caller, slot)
                  IN  r.err = "Unauthorized" /\ Persisted(s, r) = s
               /\ \A vault \in Keys, vta \in TokenAccounts :
                    LET r == cancel_fiat_withdrawal(s, clock, caller, slot, vault, vta,
                                                    Treasury(vta.mint))
                    IN  /\ r.err # "Ok"
                        /\ Persisted(s, r) = s
                        /\ s.vaults[vault] # None => r.err = "Unauthorized"

\* A user who is not the admin has a Pending deposit and a vault, and the
\* completion of that deposit signed by the user returns Unauthorized.
OwnerCompletesOwnDeposit ==
    \E deposit \in DOMAIN fiat_deposits :
      LET d == fiat_deposits[deposit]
      IN  /\ d.status = "Pending"
          /\ d.user # protocol_config.admin
          /\ vaults[d.user] # None
          /\ complete_fiat_deposit(State, clock, d.user, deposit, d.user,
                 VaultToken(d.user, d.mint), Treasury(d.mint),
                 Wallet(protocol_config.admin, d.mint)).err = "Unauthorized"

----------------------------------------------------------------------------
\* C7 (as stated): initiate_fiat_withdrawal succeeds whenever the user has a
\* profile and a vault, the token type is whitelisted and active, the
\* reference_id is unused and at most 100 long, and 0 < amount <= the balance
\* of the vault's token account of that mint; the user's signature suffices.
WithdrawalPreconditionsSuffice ==
    \A user \in Keys, mint \in Mints, reference_id \in ReferenceIds :
      \A amount \in 1..token_amount[VaultToken(user, mint)] :
        (/\ user_profiles[user] # None
         /\ vaults[user] # None
         /\ token_whitelists[mint] # None
         /\ token_whitelists[mint].is_active
         /\ ~Has(fiat_withdrawals, <<user, mint, reference_id>>)
         /\ StrLen(reference_id) <= MaxReferenceIdLen)
        => initiate_fiat_withdrawal(State, clock, user, user, user, mint, mint,
               VaultToken(user, mint), Treasury(mint), amount, reference_id).err = "Ok"

----------------------------------------------------------------------------
\* C8: initiate_fiat_withdrawal with an amount above the balance of the vault
\* token account fails, with InsufficientFunds when the accounts before that
\* check are valid; afterwards no FiatWithdrawal record exists at that (user,
\* mint, reference_id) and no balance has changed, so the reference_id is
\* still unused.
OverdrawRejected ==
    \A user \in Keys, mint \in Mints, reference_id \in ReferenceIds :
      \A vta \in Pick(InitiateFiatWithdrawalLoaded(State, user, user, user, mint, mint,
                                                   reference_id) = "Ok", TokenAccounts) :
        \A amount \in {a \in AmountChoices \cup {token_amount[vta] + 1} :
                         a > token_amount[vta]} :
          LET r == initiate_fiat_withdrawal(State, clock, user, user, user, mint, mint,
                       vta, Treasury(mint), amount, reference_id)
              after == Persisted(State, r)
          IN  /\ r.err # "Ok"
              /\ after.token_amount = token_amount
              /\ ~Has(after.fiat_withdrawals, <<user, mint, reference_id>>)
              /\ after = State
              /\ (/\ InitiateFiatWithdrawalLoaded(State, user, user, user, mint, mint,
                                                  reference_id) = "Ok"
                  /\ vta.owner = VaultPda(user)
                  /\ vta.mint = mint)
                 => r.err = "InsufficientFunds"

\* A vault token account holds tokens, and its owner's withdrawal of one
\* token more than it holds returns InsufficientFunds.
OverdrawAttempted ==
    \E user \in Keys, mint \in Mints :
      /\ token_amount[VaultToken(user, mint)] > 0
      /\ initiate_fiat_withdrawal(State, clock, user, user, user, mint, mint,
             VaultToken(user, mint), Treasury(mint),
             token_amount[VaultToken(user, mint)] + 1, RefA).err = "InsufficientFunds"

----------------------------------------------------------------------------
\* C9 (as stated): no two FiatDeposit records have the same user field and
\* the same reference_id.
UniqueUserReference ==
    \A d1 \in DOMAIN fiat_deposits, d2 \in DOMAIN fiat_deposits :
      (/\ fiat_deposits[d1].user = fiat_deposits[d2].user
       /\ fiat_deposits[d1].reference_id = fiat_deposits[d2].reference_id)
      => d1 = d2

----------------------------------------------------------------------------
\* C10 (as stated): the user field of every FiatDeposit record is the signer
\* of the initiate_fiat_deposit that created it (the key in the record's
\* address seeds).
DepositOwnedBySigner ==
    \A deposit \in DOMAIN fiat_deposits : fiat_deposits[deposit].user = deposit[1]

----------------------------------------------------------------------------
\* C11 (as stated): the token type of every FiatDeposit record has a
\* TokenWhitelist record, created by whitelist_token, that is active.
DepositMintWhitelisted ==
    \A deposit \in DOMAIN fiat_deposits :
      /\ token_whitelists[fiat_deposits[deposit].mint] # None
      /\ token_whitelists[fiat_deposits[deposit].mint].is_active

----------------------------------------------------------------------------
\* No operation clears is_active, so what the handler does with an inactive
\* TokenWhitelist record is read off the ledger with the record of a
\* whitelisted mint made inactive.
WithInactive(s, m) == [s EXCEPT !.token_whitelists[m].is_active = FALSE]

\* C12 (amended): initiate_fiat_withdrawal for a token type that is not
\* whitelisted fails with AccountNotInitialized (the TokenWhitelist account at
\* the mint's seeds does not exist), and for a token type whose whitelist
\* record is inactive fails, with TokenNotActive when the accounts before that
\* constraint are valid; in both cases no record is created and no token moves.
UnlistedWithdrawalRejected ==
    \A user \in Keys, mint \in Mints, reference_id \in ReferenceIds,
       vta \in TokenAccounts, amount \in AmountChoices :
      /\ token_whitelists[mint] = None =>
           LET r == initiate_fiat_withdrawal(State, clock, user, user, user, mint, mint,
                        vta, Treasury(mint), amount, reference_id)
           IN  /\ r.err = "AccountNotInitialized"
               /\ Persisted(State, r) = State
      /\ token_whitelists[mint] # None =>
           LET s == WithInactive(State, mint)
               r == initiate_fiat_withdrawal(s, clock, user, user, user, mint, mint,
                        vta, Treasury(mint), amount, reference_id)
           IN  /\ r.err # "Ok"
               /\ Persisted(s, r) = s
               /\ (/\ user_profiles[user] # None
                   /\ vaults[user] # None
                   /\ StrLen(reference_id) <= MaxSeedLen
                   /\ ~Has(fiat_withdrawals, <<user, mint, reference_id>>))
                  => r.err = "TokenNotActive"

\* C12 (as stated): initiate_fiat_withdrawal for a token type that is not
\* whitelisted fails with TokenNotActive.
UnlistedWithdrawalTokenNotActive ==
    \A user \in Keys, mint \in Mints, reference_id \in ReferenceIds :
      token_whitelists[mint] = None =>
        initiate_fiat_withdrawal(State, clock, user, user, user, mint, mint,
            VaultToken(user, mint), Treasury(mint), 40, reference_id).err = "TokenNotActive"

\* A vault holds tokens of a mint that is not whitelisted, and its owner's
\* withdrawal of them is refused with AccountNotInitialized.
UnlistedWithdrawalAttempted ==
    \E user \in Keys, mint \in Mints :
      /\ token_whitelists[mint] = None
      /\ user_profiles[user] # None /\ vaults[user] # None
      /\ token_amount[VaultToken(user, mint)] > 0
      /\ initiate_fiat_withdrawal(State, clock, user, user, user, mint, mint,
             VaultToken(user, mint), Treasury(mint),
             token_amount[VaultToken(user, mint)], RefA).err = "AccountNotInitialized"

----------------------------------------------------------------------------
PendingDeposits == {d \in DOMAIN fiat_deposits : fiat_deposits[d].status = "Pending"}

----------------------------------------------------------------------------
\* The fields of a record other than status and updated_at.
Created(rec) == [user |-> rec.user, mint |-> rec.mint, amount |-> rec.amount,
                 reference_id |-> rec.reference_id, created_at |-> rec.created_at]

\* A step keeps every deposit and withdrawal record and its creation fields,
\* and changes a record's status or updated_at only if it is a step of
\* complete_fiat_deposit (a deposit), or of complete_fiat_withdrawal or
\* cancel_fiat_withdrawal (a withdrawal).
CreationFieldsKept ==
    /\ \A d \in DOMAIN fiat_deposits :
         /\ d \in DOMAIN fiat_deposits'
         /\ Created(fiat_deposits'[d]) = Created(fiat_deposits[d])
         /\ fiat_deposits'[d] # fiat_deposits[d] => CompleteFiatDeposit
    /\ \A w \in DOMAIN fiat_withdrawals :
         /\ w \in DOMAIN fiat_withdrawals'
         /\ Created(fiat_withdrawals'[w]) = Created(fiat_withdrawals[w])
         /\ fiat_withdrawals'[w] # fiat_withdrawals[w]
              => (CompleteFiatWithdrawal \/ CancelFiatWithdrawal)

\* The withdrawal handlers, applied to a ledger with a Pending withdrawal
\* record, change of the record only status and updated_at.
WithdrawalFieldsKept ==
    \A w \in WithdrawalRecords({"Pending"}), admin \in Keys :
      LET s == WithWithdrawal(State, w)
          slot == <<w.user, w.mint, w.reference_id>>
          rc == complete_fiat_withdrawal(s, clock, admin, slot)
          rx == cancel_fiat_withdrawal(s, clock, admin, slot, w.user,
                                       VaultToken(w.user, w.mint), Treasury(w.mint))
      IN  /\ Has(rc.st.fiat_withdrawals, slot)
          /\ Created(rc.st.fiat_withdrawals[slot]) = Created(w)
          /\ Has(rx.st.fiat_withdrawals, slot)
          /\ Created(rx.st.fiat_withdrawals[slot]) = Created(w)

\* C15: after a FiatDeposit or FiatWithdrawal record is created, its user,
\* token type, amount, reference_id and created_at never change; only status
\* and updated_at are modified, and only by complete_fiat_deposit,
\* complete_fiat_withdrawal and cancel_fiat_withdrawal.
RecordFieldsImmutable ==
    /\ []WithdrawalFieldsKept
    /\ [][CreationFieldsKept]_vars

\* A deposit created at one time has been completed at a later time: its
\* status and updated_at have changed.
CompletedAfterCreation ==
    \E d \in CompletedDeposits :
      fiat_deposits[d].updated_at > fiat_deposits[d].created_at

----------------------------------------------------------------------------
\* What initialize_protocol returns and leaves, for every caller and rate.
InitializeOutcomes ==
    \A admin \in Keys, fee \in FeeChoices \cup {MaxFeeBasisPoints} :
      LET r == initialize_protocol(State, admin, fee)
      IN  /\ protocol_config # None =>
               r.err = "AccountAlreadyInUse" /\ Persisted(State, r) = State
          /\ (protocol_config = None /\ fee > 10000) =>
               r.err = "InvalidFeeBasisPoints" /\ Persisted(State, r) = State
          /\ (protocol_config = None /\ fee <= 10000) =>
               /\ r.err = "Ok"
               /\ Persisted(State, r).protocol_config
                    = [admin |-> admin, admin_fee_basis_points |-> fee]

FeeInRange ==
    protocol_config # None => protocol_config.admin_fee_basis_points \in 0..10000

\* C16: the protocol configuration is a singleton fixed at bootstrap:
\* initialize_protocol with a rate above 10000 fails with InvalidFeeBasisPoints
\* and creates nothing; the first successful call binds its caller as admin;
\* every later call by any caller fails and leaves admin and
\* admin_fee_basis_points unchanged; hence the rate is at most 10000 in every
\* reachable state.
ConfigSingleton ==
    /\ [](InitializeOutcomes /\ FeeInRange)
    /\ [][protocol_config # None => protocol_config' = protocol_config]_vars

\* Bob made the first call and is the admin, and a later initialize_protocol
\* by Alice is refused.
SecondInitializeRefused ==
    /\ protocol_config # None
    /\ protocol_config.admin = Bob
    /\ initialize_protocol(State, Alice, 0).err = "AccountAlreadyInUse"

----------------------------------------------------------------------------
\* The ledger left by a call keeps every Pending deposit Pending.
KeepsPending(r) ==
    \A d \in PendingDeposits :
      /\ Has(Persisted(State, r).fiat_deposits, d)
      /\ Persisted(State, r).fiat_deposits[d].status = "Pending"

\* Whatever instruction a signer other than the admin calls, with whatever
\* inputs, every Pending deposit stays Pending.
NonAdminKeepsPending ==
    \A caller \in Keys \ {protocol_config.admin} :
      /\ \A fee \in FeeChoices : KeepsPending(initialize_protocol(State, caller, fee))
      /\ \A name \in ProfileNames, email \in Emails :
           KeepsPending(create_user_profile(State, clock, caller, name, email))
      /\ \A profile \in Keys : KeepsPending(create_vault(State, clock, caller, profile))
      /\ \A mint \in Mints, symbol \in Symbols, name \in TokenNames :
           KeepsPending(whitelist_token(State, clock, caller, mint, symbol, name, TRUE))
      /\ \A profile \in Keys, mint \in Mints, whitelist \in Mints,
            amount \in AmountChoices, reference_id \in ReferenceIds :
           KeepsPending(initiate_fiat_deposit(State, clock, caller, profile, mint,
                                              whitelist, amount, reference_id))
      /\ \A deposit \in DOMAIN fiat_deposits, vault \in Keys, vta \in TokenAccounts,
            owner \in Keys :
           KeepsPending(complete_fiat_deposit(State, clock, caller, deposit, vault, vta,
                            Treasury(vta.mint), Wallet(owner, vta.mint)))
      /\ \A mint \in Mints, reference_id \in ReferenceIds, vta \in TokenAccounts,
            amount \in AmountChoices :
           KeepsPending(initiate_fiat_withdrawal(State, clock, caller, caller, caller,
                            mint, mint, vta, Treasury(mint), amount, reference_id))
      /\ \A withdrawal \in WithdrawalSlots, vault \in Keys :
           /\ KeepsPending(complete_fiat_withdrawal(State, clock, caller, withdrawal))
           /\ KeepsPending(cancel_fiat_withdrawal(State, clock, caller, withdrawal, vault,
                               VaultToken(vault, withdrawal[2]), Treasury(withdrawal[2])))
      /\ \A w \in WithdrawalRecords({"Pending"}), vault \in Keys :
           LET s == WithWithdrawal(State, w)
               slot == <<w.user, w.mint, w.reference_id>>
               rc == complete_fiat_withdrawal(s, clock, caller, slot)
               rx == cancel_fiat_withdrawal(s, clock, caller, slot, vault,
                                            VaultToken(vault, w.mint), Treasury(w.mint))
           IN  Persisted(s, rc) = s /\ Persisted(s, rx) = s

\* A step in which a Pending deposit leaves Pending is a complete_fiat_deposit
\* step; the passing of time alone changes no record.
PendingLeavesByCompletion ==
    (\E d \in PendingDeposits : fiat_deposits'[d].status # "Pending")
      => CompleteFiatDeposit

\* C17: a Pending deposit or withdrawal leaves Pending only through a step
\* taken by the admin: whatever the other signers call, the record's owner
\* included, every Pending record stays Pending, and no expiry or user-driven
\* cancellation exists.
PendingUntilAdminActs ==
    /\ []NonAdminKeepsPending
    /\ [][PendingLeavesByCompletion]_vars

\* Time has passed since a user who is not the admin got a Pending deposit,
\* it is still Pending, and the user's own completion of it is refused.
PendingOutlastsOwner ==
    \E d \in PendingDeposits :
      /\ fiat_deposits[d].user # protocol_config.admin
      /\ vaults[fiat_deposits[d].user] # None
      /\ clock > fiat_deposits[d].created_at
      /\ complete_fiat_deposit(State, clock, fiat_deposits[d].user, d,
             fiat_deposits[d].user,
             VaultToken(fiat_deposits[d].user, fiat_deposits[d].mint),
             Treasury(fiat_deposits[d].mint),
             Wallet(protocol_config.admin, fiat_deposits[d].mint)).err # "Ok"

----------------------------------------------------------------------------
DepositStatusesUsed ==
    \A d \in DOMAIN fiat_deposits : fiat_deposits[d].status \in {"Pending", "Completed"}

DepositTransitions ==
    \A d \in DOMAIN fiat_deposits :
      (d \in DOMAIN fiat_deposits' /\ fiat_deposits'[d].status # fiat_deposits[d].status)
        => (fiat_deposits[d].status = "Pending" /\ fiat_deposits'[d].status = "Completed")

\* C18: no reachable state contains a FiatDeposit with status Rejected: a
\* deposit's status is Pending or Completed, and the only deposit transition
\* that occurs is Pending to Completed.
NeverRejected ==
    /\ []DepositStatusesUsed
    /\ [][DepositTransitions]_vars

\* Both statuses that occur are present: one deposit has been completed while
\* another is still Pending.
PendingAndCompletedPresent == PendingDeposits # {} /\ CompletedDeposits # {}

----------------------------------------------------------------------------
\* The token accounts of one token type that the protocol moves tokens
\* between: the treasury, the vault token accounts and the admin's fee account.
ProtocolAccounts(s, m) ==
    {Treasury(m)} \cup {VaultToken(k, m) : k \in Keys}
                  \cup {Wallet(s.protocol_config.admin, m)}

ProtocolTotal(s, m) == Sum(s.token_amount, ProtocolAccounts(s, m))

\* cancel_fiat_withdrawal applied to the ledger extended with a Pending
\* withdrawal record keeps the total of every token type.
CancelConserves ==
    \A w \in WithdrawalRecords({"Pending"}), vault \in Keys, tta \in TokenAccounts :
      LET s == WithWithdrawal(State, w)
          slot == <<w.user, w.mint, w.reference_id>>
          r == cancel_fiat_withdrawal(s, clock, protocol_config.admin, slot, vault,
                                      VaultToken(vault, w.mint), tta)
      IN  \A m \in Mints : ProtocolTotal(Persisted(s, r), m) = ProtocolTotal(s, m)

\* C20: for each token type, the sum of the treasury balance, all vault token
\* account balances and the admin fee account balance is the same in every
\* reachable state (the amount the treasury started with): no operation
\* creates or destroys tokens or moves them out of these accounts.
TokensConserved ==
    /\ \A m \in Mints : ProtocolTotal(State, m) = InitialTreasury
    /\ \A t \in TokenAccounts :
         t \notin ProtocolAccounts(State, t.mint) => token_amount[t] = 0
    /\ CancelConserves

\* Tokens have moved: a completed deposit with a fee has left the treasury
\* for a vault token account and the admin fee account.
TokensMovedWithFee ==
    \E m \in Mints, k \in Keys :
      /\ token_amount[Treasury(m)] < InitialTreasury
      /\ token_amount[VaultToken(k, m)] > 0
      /\ token_amount[Wallet(protocol_config.admin, m)] > 0

----------------------------------------------------------------------------
\* C21: under a fair admin every Pending deposit eventually becomes Completed
\* and every Pending withdrawal eventually becomes Completed or Cancelled: no
\* Pending record stays Pending forever.
PendingEventuallySettled ==
    /\ \A deposit \in DepositSlots :
         (deposit \in DOMAIN fiat_deposits /\ fiat_deposits[deposit].status = "Pending")
           ~> (deposit \in DOMAIN fiat_deposits
                 /\ fiat_deposits[deposit].status = "Completed")
    /\ \A withdrawal \in WithdrawalSlots :
         (withdrawal \in DOMAIN fiat_withdrawals
            /\ fiat_withdrawals[withdrawal].status = "Pending")
           ~> (withdrawal \in DOMAIN fiat_withdrawals
                 /\ fiat_withdrawals[withdrawal].status \in {"Completed", "Cancelled"})
====
